---------------------------- MODULE Spec2Model ----------------------------
(***************************************************************************)
(* A model of src/people-card-finder.js: the browser-console script that   *)
(* walks a content tree to a range folder, tries four name patterns in     *)
(* turn against the folder's nodes and records a result per input name.    *)
(*                                                                         *)
(* Strings are sequences of characters.  A character is a one-character    *)
(* TLA+ string; a character outside ASCII is written by its code point     *)
(* ("U+00E9").                                                             *)
(***************************************************************************)
EXTENDS Integers, Sequences, FiniteSets, TLC

VARIABLES
    \* ---- the script (people-card-finder.js) ----
    providedNames,      \* line 17: the injected list of names
    peopleCardData,     \* line 24: one record per name
    returned,           \* how the async function ended (NotReturned before)
    pc,                 \* position of the script
    personIdx,          \* index of `person` in the for..of loop, line 272
    pathIdx,            \* index of `name` in expandNames, line 281
    currentSearchRoot,  \* line 280/283
    query,              \* the locals of the iteration: expandNames (line 277)
                        \* and the four patterns (lines 287-290)
    tier,               \* which of the four clickFirstRegex calls is running
    elapsed,            \* Date.now() - start of the running wait, in ms
    num_waits,          \* countdown's counter, line 65
    \* ---- the page ----
    userReady,          \* window.userReady
    present,            \* tree nodes currently in the document
    arrowClicked,       \* nodes whose expand arrow the script clicked
    \* ---- observation of the running query (not read by the script) ----
    attempts,           \* the tier attempts of the current query, in order
    sawMatch,           \* some poll of the current query saw a node under the
                        \* range folder matching one of the four patterns
    outcome,            \* per finished query: how it ended, its entry then
    \* ---- application of the pure helpers ----
    fnIn, fnOut, fnStage

procVars == <<providedNames, peopleCardData, returned, pc, personIdx, pathIdx,
              currentSearchRoot, query, tier, elapsed, num_waits, userReady, present,
              arrowClicked, attempts, sawMatch, outcome>>
fnVars == <<fnIn, fnOut, fnStage>>
vars == <<procVars, fnVars>>

-----------------------------------------------------------------------------
(* Characters *)

LowerAZ == <<"a","b","c","d","e","f","g","h","i","j","k","l","m",
             "n","o","p","q","r","s","t","u","v","w","x","y","z">>
UpperAZ == <<"A","B","C","D","E","F","G","H","I","J","K","L","M",
             "N","O","P","Q","R","S","T","U","V","W","X","Y","Z">>
Digits == <<"0","1","2","3","4","5","6","7","8","9">>

Range(f) == {f[k] : k \in DOMAIN f}
IndexOf(c, f) == CHOOSE k \in DOMAIN f : f[k] = c

LowerSet == Range(LowerAZ)
UpperSet == Range(UpperAZ)
DigitSet == Range(Digits)

IsLower(c) == c \in LowerSet
IsUpper(c) == c \in UpperSet
IsDigit(c) == c \in DigitSet

LowerOf == [c \in UpperSet |-> LowerAZ[IndexOf(c, UpperAZ)]]
UpperOf == [c \in LowerSet |-> UpperAZ[IndexOf(c, LowerAZ)]]

\* \s of a JavaScript regular expression (and what String.prototype.trim strips)
IsSpace(c) == c \in {" ", "\t"}

\* UTF-16 code unit of an ASCII letter or digit, for the comparisons of
\* computeLetterAndRange
CodeUnit(c) ==
    IF IsDigit(c) THEN 47 + IndexOf(c, Digits)
    ELSE IF IsUpper(c) THEN 64 + IndexOf(c, UpperAZ)
    ELSE 96 + IndexOf(c, LowerAZ)

\* String.prototype.toLowerCase, per character
ToLowerChar(c) ==
    IF IsUpper(c) THEN LowerOf[c]
    ELSE IF c = "U+00C9" THEN "U+00E9"     \* E WITH ACUTE, capital to small
    ELSE c

\* String.prototype.toUpperCase, per character (ASCII is all the callers pass)
ToUpperChar(c) == IF IsLower(c) THEN UpperOf[c] ELSE c

\* Canonical decomposition of one character (Unicode NFD, first half)
Decompose(c) ==
    IF c = "U+00E9" THEN <<"e", "U+0301">>
    ELSE IF c = "U+00C9" THEN <<"E", "U+0301">>
    ELSE <<c>>

\* Canonical_Combining_Class: 0 for a starter.
\*   U+0301 COMBINING ACUTE ACCENT        230
\*   U+20D7 COMBINING RIGHT ARROW ABOVE   230
\*   U+20E8 COMBINING TRIPLE UNDERDOT     220
CombiningClass(c) ==
    IF c \in {"U+0301", "U+20D7"} THEN 230
    ELSE IF c = "U+20E8" THEN 220
    ELSE 0

\* \p{Diacritic}: of the characters modelled, the circumflex accent (U+005E)
\* and the combining acute accent have the property; the combining marks for
\* symbols U+20D7 and U+20E8 do not.
IsDiacritic(c) == c \in {"^", "U+0301"}

-----------------------------------------------------------------------------
(* Strings *)

RECURSIVE MapChars(_, _)
MapChars(Op(_), s) ==
    IF s = <<>> THEN <<>> ELSE <<Op(Head(s))>> \o MapChars(Op, Tail(s))

RECURSIVE FlatMapChars(_, _)
FlatMapChars(Op(_), s) ==
    IF s = <<>> THEN <<>> ELSE Op(Head(s)) \o FlatMapChars(Op, Tail(s))

RECURSIVE RemoveChars(_, _)
RemoveChars(Drop(_), s) ==
    IF s = <<>> THEN <<>>
    ELSE IF Drop(Head(s)) THEN RemoveChars(Drop, Tail(s))
    ELSE <<Head(s)>> \o RemoveChars(Drop, Tail(s))

ToLowerCase(s) == MapChars(ToLowerChar, s)

\* One pass of the canonical ordering: the first adjacent pair of combining
\* marks that is out of order is exchanged.
RECURSIVE ReorderOnce(_)
ReorderOnce(s) ==
    IF Len(s) < 2 THEN s
    ELSE IF CombiningClass(s[2]) > 0 /\ CombiningClass(s[1]) > CombiningClass(s[2])
         THEN <<s[2], s[1]>> \o SubSeq(s, 3, Len(s))
         ELSE <<s[1]>> \o ReorderOnce(Tail(s))

RECURSIVE CanonicalOrder(_)
CanonicalOrder(s) ==
    LET t == ReorderOnce(s) IN IF t = s THEN s ELSE CanonicalOrder(t)

\* String.prototype.normalize('NFD'): decompose, then order the combining marks
NormalizeNFD(s) == CanonicalOrder(FlatMapChars(Decompose, s))

\* .replace(/\p{Diacritic}/gu, '')
StripDiacritics(s) == RemoveChars(IsDiacritic, s)

\* .replace(/\s+/g, r): every maximal run of white space becomes r
RECURSIVE ReplaceSpaceRuns(_, _)
ReplaceSpaceRuns(s, r) ==
    IF s = <<>> THEN <<>>
    ELSE IF IsSpace(Head(s))
         THEN IF Len(s) > 1 /\ IsSpace(s[2])
              THEN ReplaceSpaceRuns(Tail(s), r)
              ELSE r \o ReplaceSpaceRuns(Tail(s), r)
         ELSE <<Head(s)>> \o ReplaceSpaceRuns(Tail(s), r)

\* .replace(/-+/g, '-')
RECURSIVE CollapseHyphens(_)
CollapseHyphens(s) ==
    IF s = <<>> THEN <<>>
    ELSE IF Head(s) = "-" /\ Len(s) > 1 /\ s[2] = "-" THEN CollapseHyphens(Tail(s))
    ELSE <<Head(s)>> \o CollapseHyphens(Tail(s))

\* String.prototype.trim
RECURSIVE TrimLeft(_)
TrimLeft(s) == IF s # <<>> /\ IsSpace(Head(s)) THEN TrimLeft(Tail(s)) ELSE s

RECURSIVE TrimRight(_)
TrimRight(s) ==
    IF s # <<>> /\ IsSpace(s[Len(s)]) THEN TrimRight(SubSeq(s, 1, Len(s) - 1)) ELSE s

Trim(s) == TrimRight(TrimLeft(s))

\* .replace(/^-|-$/g, ''): one hyphen at the start and one at the end
StripEdgeHyphens(s) ==
    LET t == IF s # <<>> /\ Head(s) = "-" THEN Tail(s) ELSE s
    IN  IF t # <<>> /\ t[Len(t)] = "-" THEN SubSeq(t, 1, Len(t) - 1) ELSE t

\* String.prototype.split(' ')
RECURSIVE SplitOnSpace(_)
SplitOnSpace(s) ==
    IF \A k \in DOMAIN s : s[k] # " " THEN <<s>>
    ELSE LET k == CHOOSE j \in DOMAIN s : s[j] = " " /\ \A m \in 1..(j - 1) : s[m] # " "
         IN  <<SubSeq(s, 1, k - 1)>> \o SplitOnSpace(SubSeq(s, k + 1, Len(s)))

\* Array.prototype.join(' ')
RECURSIVE JoinWithSpace(_)
JoinWithSpace(parts) ==
    IF parts = <<>> THEN <<>>
    ELSE IF Len(parts) = 1 THEN parts[1]
    ELSE parts[1] \o <<" ">> \o JoinWithSpace(Tail(parts))

-----------------------------------------------------------------------------
(* The helpers of the script *)

HyphenOrUnderscoreToSpace(c) == IF c \in {"-", "_"} THEN " " ELSE c

sanitizeName(name) ==
    Trim(ReplaceSpaceRuns(
        MapChars(HyphenOrUnderscoreToSpace,
                 StripDiacritics(NormalizeNFD(ToLowerCase(name)))),
        <<" ">>))

NotKebabChar(c) == ~(IsLower(c) \/ IsDigit(c) \/ IsSpace(c) \/ c = "-")

canonicalKebab(s) ==
    StripEdgeHyphens(CollapseHyphens(ReplaceSpaceRuns(
        RemoveChars(NotKebabChar, StripDiacritics(NormalizeNFD(ToLowerCase(s)))),
        <<"-">>)))

Threw(msg) == [threw |-> msg]
DidThrow(r) == "threw" \in DOMAIN r

parsePersonName(full) ==
    LET s == sanitizeName(full)
        parts == SplitOnSpace(s)
    IN  IF Len(parts) < 2 THEN Threw("Expected first last")
        ELSE [first |-> parts[1], last |-> JoinWithSpace(Tail(parts))]

IsHyphen(c) == c = "-"

\* computeLetterAndRange with < written for <= at the end of the first bucket
computeLetterAndRange_openBucket(last) ==
    LET clean == RemoveChars(IsHyphen, canonicalKebab(last))
        firstLetter == IF clean = <<>> THEN "" ELSE ToUpperChar(clean[1])
        secondLetter == IF Len(clean) < 2 THEN "a" ELSE ToLowerChar(clean[2])
        bucket == IF CodeUnit(secondLetter) >= CodeUnit("a")
                     /\ CodeUnit(secondLetter) < CodeUnit("i") THEN <<"a", "i">>
                  ELSE IF CodeUnit(secondLetter) >= CodeUnit("j")
                          /\ CodeUnit(secondLetter) <= CodeUnit("r") THEN <<"j", "r">>
                  ELSE <<"s", "z">>
    IN  IF firstLetter = "" \/ ~IsUpper(firstLetter)
        THEN Threw("Last name must start with A-Z")
        ELSE [letterFolder |-> <<firstLetter>>,
              rangeFolder |-> <<firstLetter, bucket[1], "-", firstLetter, bucket[2]>>]

computeLetterAndRange(last) ==
    LET clean == RemoveChars(IsHyphen, canonicalKebab(last))
        firstLetter == IF clean = <<>> THEN "" ELSE ToUpperChar(clean[1])
        secondLetter == IF Len(clean) < 2 THEN "a" ELSE ToLowerChar(clean[2])
        bucket == IF CodeUnit(secondLetter) >= CodeUnit("a")
                     /\ CodeUnit(secondLetter) <= CodeUnit("i") THEN <<"a", "i">>
                  ELSE IF CodeUnit(secondLetter) >= CodeUnit("j")
                          /\ CodeUnit(secondLetter) <= CodeUnit("r") THEN <<"j", "r">>
                  ELSE <<"s", "z">>
    IN  IF firstLetter = "" \/ ~IsUpper(firstLetter)
        THEN Threw("Last name must start with A-Z")
        ELSE [letterFolder |-> <<firstLetter>>,
              rangeFolder |-> <<firstLetter, bucket[1], "-", firstLetter, bucket[2]>>]

-----------------------------------------------------------------------------
(* Regular expressions.  A pattern is the sequence of the tokens between the *)
(* ^ and the $ of its source; every pattern of the script has both anchors   *)
(* and the flag i.  The names interpolated into a source are outputs of      *)
(* canonicalKebab, so they hold only a-z, 0-9 and the hyphen, each of which  *)
(* stands for itself outside a character class.                              *)

Lit(c) == [k |-> "lit", c |-> c]          \* one literal character
ClassStar == [k |-> "star", c |-> ""]     \* [a-z0-9-]*
ClassPlus == [k |-> "plus", c |-> ""]     \* [a-z0-9-]+
Digit == [k |-> "digit", c |-> ""]        \* \d

Literal(s) == [n \in DOMAIN s |-> Lit(s[n])]
FourDigits == <<Digit, Digit, Digit, Digit>>      \* \d{4}
ThreeDigits == <<Digit, Digit, Digit>>            \* \d{3}

\* [a-z0-9-] under the flag i
InNameClass(ch) == IsLower(ch) \/ IsUpper(ch) \/ IsDigit(ch) \/ ch = "-"

\* a literal under the flag i: ASCII letters match in either case
LitMatches(c, ch) == ch = c \/ (IsUpper(ch) /\ ToLowerChar(ch) = c)
                            \/ (IsLower(ch) /\ ToUpperChar(ch) = c)

\* the tokens p[i..] match s[j..] up to the end of s
RECURSIVE MatchFrom(_, _, _, _)
MatchFrom(p, i, s, j) ==
    IF i > Len(p) THEN j > Len(s)
    ELSE CASE p[i].k = "lit" ->
                /\ j <= Len(s)
                /\ LitMatches(p[i].c, s[j])
                /\ MatchFrom(p, i + 1, s, j + 1)
           [] p[i].k = "digit" ->
                /\ j <= Len(s)
                /\ IsDigit(s[j])
                /\ MatchFrom(p, i + 1, s, j + 1)
           [] p[i].k = "star" ->
                \/ MatchFrom(p, i + 1, s, j)
                \/ /\ j <= Len(s)
                   /\ InNameClass(s[j])
                   /\ MatchFrom(p, i, s, j + 1)
           [] p[i].k = "plus" ->
                /\ j <= Len(s)
                /\ InNameClass(s[j])
                /\ (MatchFrom(p, i + 1, s, j + 1) \/ MatchFrom(p, i, s, j + 1))

\* RegExp.prototype.test
RegexTest(p, s) == MatchFrom(p, 1, s, 1)

\* buildExactRegex with \d{3} written for \d{4}
buildExactRegex_threeDigits(last, first) ==
    Literal(canonicalKebab(last)) \o <<Lit("-")>> \o Literal(canonicalKebab(first))
        \o <<Lit("-")>> \o ThreeDigits

buildExactRegex(last, first) ==
    Literal(canonicalKebab(last)) \o <<Lit("-")>> \o Literal(canonicalKebab(first))
        \o <<Lit("-")>> \o FourDigits

buildLastPlusFirstInitialRegex(last, first) ==
    LET firstK == canonicalKebab(first)
        firstInitial == IF firstK = <<>> THEN <<>> ELSE <<firstK[1]>>
    IN  Literal(canonicalKebab(last)) \o <<Lit("-")>> \o Literal(firstInitial)
            \o <<ClassStar, Lit("-")>> \o FourDigits

buildLastOnlyRegex(last) ==
    Literal(canonicalKebab(last)) \o <<Lit("-"), ClassPlus, Lit("-")>> \o FourDigits

buildFirstLetterRegex(last) ==
    LET lastK == canonicalKebab(last)
        letter == IF lastK = <<>> THEN <<>> ELSE <<ToLowerChar(lastK[1])>>
    IN  Literal(letter) \o <<ClassStar, Lit("-")>> \o FourDigits

\* the four patterns of one query, in the order the main loop tries them
TierRegex(first, last) ==
    << buildExactRegex(last, first),
       buildLastPlusFirstInitialRegex(last, first),
       buildLastOnlyRegex(last),
       buildFirstLetterRegex(last) >>

-----------------------------------------------------------------------------
(* Applying the pure helpers to bounded inputs.  The script does not run in  *)
(* these specifications: its variables keep the values of ScriptIdle.        *)

NotReturned == [state |-> "running"]
Document == 0
NoQuery == [expandNames |-> <<>>, regex |-> <<>>]

ScriptIdle ==
    /\ providedNames = <<>>
    /\ peopleCardData = <<>>
    /\ returned = NotReturned
    /\ pc = "idle"
    /\ personIdx = 0
    /\ pathIdx = 0
    /\ currentSearchRoot = Document
    /\ query = NoQuery
    /\ tier = 0
    /\ elapsed = 0
    /\ num_waits = 0
    /\ userReady = FALSE
    /\ present = {}
    /\ arrowClicked = {}
    /\ attempts = <<>>
    /\ sawMatch = FALSE
    /\ outcome = <<>>

StringsUpTo(alphabet, n) == UNION {[1..k -> alphabet] : k \in 0..n}

\* ---- sanitizeName, canonicalKebab, parsePersonName ----

MaxStrLen == 3
NormAlphabet == {"a", "B", " ", "\t", "-", "_", "!", "^", "U+00E9", "U+20D7", "U+20E8"}

InitNormalize ==
    /\ ScriptIdle
    /\ fnIn \in StringsUpTo(NormAlphabet, MaxStrLen)
    /\ fnOut = <<>>
    /\ fnStage = "input"

\* fnOut collects f(s), then f(f(s))
Sanitize ==
    /\ fnStage \in {"input", "sanitizeName"}
    /\ Len(fnOut) < 2
    /\ fnOut' = Append(fnOut, sanitizeName(IF fnOut = <<>> THEN fnIn ELSE fnOut[1]))
    /\ fnStage' = "sanitizeName"
    /\ UNCHANGED <<fnIn, procVars>>

Kebab ==
    /\ fnStage \in {"input", "canonicalKebab"}
    /\ Len(fnOut) < 2
    /\ fnOut' = Append(fnOut, canonicalKebab(IF fnOut = <<>> THEN fnIn ELSE fnOut[1]))
    /\ fnStage' = "canonicalKebab"
    /\ UNCHANGED <<fnIn, procVars>>

Parse ==
    /\ fnStage = "input"
    /\ fnOut' = <<parsePersonName(fnIn)>>
    /\ fnStage' = "parsePersonName"
    /\ UNCHANGED <<fnIn, procVars>>

\* parsePersonName applied to 'first last' rebuilt from its own output
Reparse ==
    /\ fnStage = "parsePersonName"
    /\ Len(fnOut) = 1
    /\ ~DidThrow(fnOut[1])
    /\ fnOut' = Append(fnOut, parsePersonName(fnOut[1].first \o <<" ">> \o fnOut[1].last))
    /\ UNCHANGED <<fnIn, fnStage, procVars>>

NextNormalize == Sanitize \/ Kebab \/ Parse \/ Reparse

SpecNormalize == InitNormalize /\ [][NextNormalize]_vars

\* ---- computeLetterAndRange ----

MaxLastLen == 3
RangeAlphabet == {"a", "i", "j", "r", "s", "z", "7", "B", "-", " "}

InitRange ==
    /\ ScriptIdle
    /\ fnIn \in StringsUpTo(RangeAlphabet, MaxLastLen)
    /\ fnOut = <<>>
    /\ fnStage = "input"

ComputeRange ==
    /\ fnStage = "input"
    /\ fnOut' = computeLetterAndRange(fnIn)
    /\ fnStage' = "computeLetterAndRange"
    /\ UNCHANGED <<fnIn, procVars>>

NextRange == ComputeRange

SpecRange == InitRange /\ [][NextRange]_vars

\* ---- the four patterns against a label ----

MaxNameLen == 3
MaxPrefixLen == 4
RegexNameAlphabet == {"a", "B", " ", "!"}
LabelAlphabet == {"a", "b", "A", "-"}
LabelSuffixes == { <<"-", "1", "2", "3", "4">>,
                   <<"-", "1", "2", "3">>,
                   <<"-", "1", "2", "3", "4", "5">>,
                   <<"-", "1", "a", "3", "4">>,
                   <<"-", "1", "2", "3", "4", "-">>,
                   <<"1", "2", "3", "4">> }
Labels == {pre \o suf : pre \in StringsUpTo(LabelAlphabet, MaxPrefixLen),
                        suf \in LabelSuffixes}

InitRegex ==
    /\ ScriptIdle
    /\ fnIn \in StringsUpTo(RegexNameAlphabet, MaxNameLen)
    /\ fnOut = <<>>
    /\ fnStage = "input"

\* lines 275-276 and 287-290: parse the name, build the four patterns
BuildPatterns ==
    /\ fnStage = "input"
    /\ LET parsed == parsePersonName(fnIn) IN
         IF DidThrow(parsed)
         THEN /\ fnOut' = parsed
              /\ fnStage' = "rejected"
         ELSE /\ fnOut' = [first |-> parsed.first, last |-> parsed.last,
                           accepted |-> ~DidThrow(computeLetterAndRange(parsed.last)),
                           regex |-> TierRegex(parsed.first, parsed.last)]
              /\ fnStage' = "built"
    /\ UNCHANGED <<fnIn, procVars>>

\* RegExp.test of each pattern on every label
TestPatterns ==
    /\ fnStage = "built"
    /\ fnOut' = [first |-> fnOut.first, last |-> fnOut.last,
                 accepted |-> fnOut.accepted,
                 matches |-> [l \in Labels |->
                                [t \in 1..4 |-> RegexTest(fnOut.regex[t], l)]]]
    /\ fnStage' = "tested"
    /\ UNCHANGED <<fnIn, procVars>>

NextRegex == BuildPatterns \/ TestPatterns

SpecRegex == InitRegex /\ [][NextRegex]_vars

-----------------------------------------------------------------------------
(* The page: the content tree the script walks.  Nodes are numbered in       *)
(* document order.  Nodes 1-5 are the folders of the path down to the letter *)
(* folder S; node 6 is a card that sits in the letter folder, before and     *)
(* outside the range folder; node 7 is the range folder Sa-Si and nodes 8-10 *)
(* are its cards; node 11 is a node of the letter folder that has no span.   *)
(* The range folder and its cards are rendered lazily: they may be in the    *)
(* document from the start, appear later, or never appear.  A card appears   *)
(* only in a folder that is expanded.                                        *)

NoNode == 0
Nodes == 1..11
NodeParent == <<0, 1, 2, 3, 4, 5, 5, 7, 7, 7, 5>>
NodeLabel == <<
    <<"R", "e", "d", "e", "s", "i", "g", "n", " ", "D", "a", "t", "a">>,
    <<"M", "o", "d", "u", "l", "e", "s", " ", "G", "l", "o", "b", "a", "l", " ",
      "D", "a", "t", "a">>,
    <<"P", "e", "o", "p", "l", "e", " ", "C", "a", "r", "d", "s">>,
    <<"P", "e", "o", "p", "l", "e", " ", "C", "a", "r", "d", " ", "D", "a", "t", "a">>,
    <<"S">>,
    <<"s", "i", "m", "s", "-", "a", "n", "n", "-", "0", "0", "0", "1">>,
    <<"S", "a", "-", "S", "i">>,
    <<"s", "i", "m", "s", "-", "a", "l", "-", "0", "0", "0", "2">>,
    <<" ", "S", "i", "m", "s", "-", "A", "n", "n", "-", "1", "2", "3", "4", " ">>,
    <<"s", "a", "g", "-", "b", "o", "-", "0", "0", "0", "4">>,
    <<>> >>
NodesWithoutSpan == {11}          \* node.querySelector('span') is null
NodesWithArrow == {1, 2, 3, 4, 5, 7}      \* node.querySelector('img') is not null
LazyNodes == {7, 8, 9, 10}

\* the value attribute of the input of the Headshot Image field that the
\* page shows for a clicked card
HeadshotFieldValue == <<"h", "s", ".", "j", "p", "g">>

RECURSIVE InDocument(_)
InDocument(n) ==
    /\ n \in (Nodes \ LazyNodes) \cup present
    /\ NodeParent[n] = 0 \/ InDocument(NodeParent[n])

RECURSIVE IsDescendant(_, _)
IsDescendant(n, root) ==
    \/ root = Document
    \/ /\ NodeParent[n] # 0
       /\ NodeParent[n] = root \/ IsDescendant(NodeParent[n], root)

InDocumentOrder == [n \in Nodes |-> n]

\* searchRoot.querySelectorAll('.scContentTreeNode'): the descendants of the
\* root that are in the document, in document order
QuerySelectorAll(searchRoot) ==
    SelectSeq(InDocumentOrder, LAMBDA n : InDocument(n) /\ IsDescendant(n, searchRoot))

\* line 196: the node's last element child is the DIV that holds its children
HasChildInDocument(n) == \E m \in Nodes : NodeParent[m] = n /\ InDocument(m)

-----------------------------------------------------------------------------
(* The script *)

POLL_MS == 500
MATCH_TIMEOUT_MS == 5000        \* waitForMatchExact's default, used by expand
EXACT_TIMEOUT_MS == 3000
FALLBACK_TIMEOUT_MS == 2000
MAX_NUM_WAITS == 12

\* setTimeout(check, 500) runs check after 500 ms, or later when the timer
\* is late
PollDelays == {POLL_MS, 2 * POLL_MS}

TierTimeoutMs == <<EXACT_TIMEOUT_MS, FALLBACK_TIMEOUT_MS, FALLBACK_TIMEOUT_MS,
                 FALLBACK_TIMEOUT_MS>>

BASE_PATH == <<NodeLabel[1], NodeLabel[2], NodeLabel[3], NodeLabel[4]>>

Null == [null |-> TRUE]
Undefined == [undefined |-> TRUE]

\* the async function returned: line 21 returns nothing, line 339 the list
Returned(value) == [state |-> "returned", value |-> value]

MaxNames == 2
NamePool == { <<"A", "n", "n", " ", "S", "i", "m", "s">>,
              <<"C", "h", "e", "r">>,
              <<"B", "o", "b", " ", "4", "x">> }

\* The helpers are pure: what they return for the names of the pool is
\* computed once, per argument.

\* line 275: parsePersonName(person.name)
ParsedOf == [name \in NamePool |-> parsePersonName(name)]

ParsedNames == {ParsedOf[name] : name \in {n \in NamePool : ~DidThrow(ParsedOf[n])}}

\* line 276: computeLetterAndRange(last)
FoldersOf == [parsed \in ParsedNames |-> computeLetterAndRange(parsed.last)]

\* lines 287-290: the four patterns
RegexOf == [parsed \in ParsedNames |-> TierRegex(parsed.first, parsed.last)]

\* lines 275-277 and 287-290: what one iteration computes from person.name
Plan(name) ==
    LET parsed == ParsedOf[name] IN
    IF DidThrow(parsed) THEN parsed
    ELSE LET folders == FoldersOf[parsed] IN
         IF DidThrow(folders) THEN folders
         ELSE [expandNames |-> BASE_PATH \o <<folders.letterFolder, folders.rangeFolder>>,
               regex |-> RegexOf[parsed]]

PlanOf == [name \in NamePool |-> Plan(name)]

\* the folder names the script may look for: those of BASE_PATH and those
\* computeLetterAndRange can return (lines 106-108)
ExpandNamePool ==
    Range(BASE_PATH) \cup
    UNION {{<<X>>, <<X, "a", "-", X, "i">>, <<X, "j", "-", X, "r">>,
            <<X, "s", "-", X, "z">>} : X \in UpperSet}

\* line 148: sanitizeName(name), per folder name
SanitizedName == [name \in ExpandNamePool |-> sanitizeName(name)]

\* line 169: sanitizeName(span.textContent), per node
SanitizedText == [n \in Nodes |-> sanitizeName(NodeLabel[n])]

\* line 211: (span.textContent || '').trim(), per node
TrimmedText == [n \in Nodes |-> Trim(NodeLabel[n])]

\* lines 209-212: the node has a span and the pattern matches its trimmed text
NodeMatches(n, regex) ==
    n \notin NodesWithoutSpan /\ RegexTest(regex, TrimmedText[n])

\* lines 145-171: the first node under the root that has a span whose
\* sanitized text is the sanitized name
findNodeExact(name, searchRoot) ==
    LET target == SanitizedName[name]
        found == SelectSeq(QuerySelectorAll(searchRoot),
                           LAMBDA n : n \notin NodesWithoutSpan /\ SanitizedText[n] = target)
    IN  IF found = <<>> THEN NoNode ELSE found[1]

\* findNodesByRegex called without its searchRoot: the default, document
findNodesByRegex_wholeDocument(regex, searchRoot) ==
    SelectSeq(QuerySelectorAll(Document), LAMBDA n : NodeMatches(n, regex))

findNodesByRegex(regex, searchRoot) ==
    SelectSeq(QuerySelectorAll(searchRoot), LAMBDA n : NodeMatches(n, regex))

\* clickFirstRegex taking the last match
MatchToClick_last(matches) == matches[Len(matches)]

\* line 236: const node = matches[0]
MatchToClick(matches) == matches[1]

\* what the free identifier val of line 269 resolves to: the page may define
\* a global of that name (here, with a string that is not the headshot), or
\* none
WindowVals == {[declared |-> FALSE], [declared |-> TRUE, value |-> <<"v">>]}

\* getHeadshotImageString.  Lines 253-265 find the field under searchRoot and
\* bind its value to a const val that is scoped to the if block; the val of
\* line 269 is outside that block and names no binding of the function: it
\* is the page's global val, and a ReferenceError when there is none.
getHeadshotImageString(searchRoot, windowVal) ==
    IF ~windowVal.declared
    THEN Threw("ReferenceError: val is not defined")
    ELSE [value |-> IF windowVal.value = <<>> THEN Null
                    ELSE [string |-> windowVal.value]]

\* the record kept of a query that ended
Ended(kind, data, tried, saw) ==
    Append(outcome, [kind |-> kind, entry |-> data[personIdx],
                     attempts |-> tried, sawMatch |-> saw])

\* some node under the root matches one of the four patterns of the query
SomePatternMatchesUnder(root) ==
    \E n \in Nodes : \E t \in 1..4 :
        /\ InDocument(n)
        /\ IsDescendant(n, root)
        /\ NodeMatches(n, query.regex[t])

\* lines 17-28
Start ==
    /\ pc = "start"
    /\ IF (IF Len(providedNames) = 0 THEN 1 ELSE 0) > 0     \* !providedNames.length > 0
       THEN /\ returned' = Returned(Undefined)
            /\ pc' = "done"
            /\ UNCHANGED <<peopleCardData, personIdx>>
       ELSE /\ peopleCardData' = [n \in DOMAIN providedNames |->
                                    [name |-> providedNames[n], found |-> FALSE,
                                     headshotImgString |-> Null]]
            /\ personIdx' = 1
            /\ pc' = "person"
            /\ UNCHANGED returned
    /\ UNCHANGED <<query, providedNames, pathIdx, currentSearchRoot, tier, elapsed, num_waits,
                   userReady, present, arrowClicked, attempts, sawMatch, outcome, fnVars>>

\* lines 272, 338-339: the loop is over, the list is logged and returned
FinishBatch ==
    /\ pc = "person"
    /\ personIdx > Len(peopleCardData)
    /\ returned' = Returned([list |-> peopleCardData])
    /\ pc' = "done"
    /\ UNCHANGED <<query, providedNames, peopleCardData, personIdx, pathIdx, currentSearchRoot,
                   tier, elapsed, num_waits, userReady, present, arrowClicked, attempts,
                   sawMatch, outcome, fnVars>>

\* lines 275-276 throw, line 334 catches: on to the next person
RejectPerson ==
    /\ pc = "person"
    /\ personIdx <= Len(peopleCardData)
    /\ DidThrow(PlanOf[peopleCardData[personIdx].name])
    /\ outcome' = Ended("threw", peopleCardData, <<>>, FALSE)
    /\ personIdx' = personIdx + 1
    /\ attempts' = <<>>
    /\ sawMatch' = FALSE
    /\ UNCHANGED <<query, providedNames, peopleCardData, returned, pc, pathIdx, currentSearchRoot,
                   tier, elapsed, num_waits, userReady, present, arrowClicked, fnVars>>

\* lines 275-282: the path is computed and the first folder is waited for
BeginPerson ==
    /\ pc = "person"
    /\ personIdx <= Len(peopleCardData)
    /\ \E plan \in {PlanOf[peopleCardData[personIdx].name]} :
          /\ ~DidThrow(plan)
          /\ query' = plan
    /\ currentSearchRoot' = Document
    /\ pathIdx' = 1
    /\ elapsed' = 0
    /\ pc' = "expand"
    /\ attempts' = <<>>
    /\ sawMatch' = FALSE
    /\ UNCHANGED <<providedNames, peopleCardData, returned, personIdx, tier, num_waits,
                   userReady, present, arrowClicked, outcome, fnVars>>

\* waitForMatchExact's check finds the folder (line 178); expand clicks its
\* arrow unless it has none or is already expanded (lines 188-202); the loop
\* of line 281 goes on to the next folder, or to the exact tier
ExpandFound ==
    /\ pc = "expand"
    /\ LET node == findNodeExact(query.expandNames[pathIdx], currentSearchRoot) IN
       /\ node # NoNode
       /\ arrowClicked' = IF node \in NodesWithArrow /\ ~HasChildInDocument(node)
                          THEN arrowClicked \cup {node} ELSE arrowClicked
       /\ currentSearchRoot' = node
    /\ elapsed' = 0
    /\ IF pathIdx < Len(query.expandNames)
       THEN /\ pathIdx' = pathIdx + 1
            /\ UNCHANGED <<pc, tier>>
       ELSE /\ pc' = "tier"
            /\ tier' = 1
            /\ UNCHANGED pathIdx
    /\ UNCHANGED <<query, providedNames, peopleCardData, returned, personIdx, num_waits, userReady,
                   present, attempts, sawMatch, outcome, fnVars>>

\* the rejection of waitForMatchExact caught at line 334 and not rethrown
ExpandTimeout_uncaught ==
    /\ pc = "expand"
    /\ findNodeExact(query.expandNames[pathIdx], currentSearchRoot) = NoNode
    /\ elapsed > MATCH_TIMEOUT_MS
    /\ returned' = [state |-> "rejected", reason |-> "Timeout waiting for folder"]
    /\ pc' = "done"
    /\ UNCHANGED <<query, providedNames, peopleCardData, personIdx, pathIdx, currentSearchRoot,
                   tier, elapsed, num_waits, userReady, present, arrowClicked, attempts,
                   sawMatch, outcome, fnVars>>

\* the folder is not there and the time is up: waitForMatchExact rejects
\* (line 180), expand throws, line 334 catches: on to the next person
ExpandTimeout ==
    /\ pc = "expand"
    /\ findNodeExact(query.expandNames[pathIdx], currentSearchRoot) = NoNode
    /\ elapsed > MATCH_TIMEOUT_MS
    /\ outcome' = Ended("pathTimeout", peopleCardData, attempts, sawMatch)
    /\ personIdx' = personIdx + 1
    /\ pc' = "person"
    /\ UNCHANGED <<query, providedNames, peopleCardData, returned, pathIdx, currentSearchRoot,
                   tier, elapsed, num_waits, userReady, present, arrowClicked, attempts,
                   sawMatch, fnVars>>

\* the folder is not there yet: check runs again after the poll delay (line 181)
ExpandWait ==
    /\ pc = "expand"
    /\ findNodeExact(query.expandNames[pathIdx], currentSearchRoot) = NoNode
    /\ elapsed <= MATCH_TIMEOUT_MS
    /\ \E d \in PollDelays : elapsed' = elapsed + d
    /\ UNCHANGED <<query, providedNames, peopleCardData, returned, pc, personIdx, pathIdx,
                   currentSearchRoot, tier, num_waits, userReady, present, arrowClicked,
                   attempts, sawMatch, outcome, fnVars>>

\* waitForRegex's check finds matches (line 226); clickFirstRegex clicks the
\* span of the first (lines 236-242) and countdown(0) starts (lines 63-66)
TierClick ==
    /\ pc = "tier"
    /\ LET matches == findNodesByRegex(query.regex[tier], currentSearchRoot) IN
       /\ matches # <<>>
       /\ attempts' = Append(attempts, [tier |-> tier, node |-> MatchToClick(matches),
                                        matched |-> Len(matches)])
    /\ sawMatch' = (sawMatch \/ SomePatternMatchesUnder(currentSearchRoot))
    /\ userReady' = FALSE
    /\ num_waits' = 0
    /\ pc' = "countdown"
    /\ UNCHANGED <<query, providedNames, peopleCardData, returned, personIdx, pathIdx,
                   currentSearchRoot, tier, elapsed, present, arrowClicked, outcome, fnVars>>

\* the rejection of waitForRegex taken by the catch of line 334 instead of
\* the catch of the tier
TierTimeout_toOuterCatch ==
    /\ pc = "tier"
    /\ findNodesByRegex(query.regex[tier], currentSearchRoot) = <<>>
    /\ elapsed > TierTimeoutMs[tier]
    /\ sawMatch' = (sawMatch \/ SomePatternMatchesUnder(currentSearchRoot))
    /\ attempts' = Append(attempts, [tier |-> tier, node |-> NoNode, matched |-> 0])
    /\ outcome' = Ended("noMatch", peopleCardData, attempts', sawMatch')
    /\ personIdx' = personIdx + 1
    /\ pc' = "person"
    /\ UNCHANGED <<query, providedNames, peopleCardData, returned, pathIdx, currentSearchRoot,
                   tier, elapsed, num_waits, userReady, present, arrowClicked, fnVars>>

\* no match and the time is up: waitForRegex rejects (line 228) and the catch
\* of the tier (lines 299, 308, 320, 329) lets the next tier run; after the
\* last tier the iteration ends
TierTimeout ==
    /\ pc = "tier"
    /\ findNodesByRegex(query.regex[tier], currentSearchRoot) = <<>>
    /\ elapsed > TierTimeoutMs[tier]
    /\ sawMatch' = (sawMatch \/ SomePatternMatchesUnder(currentSearchRoot))
    /\ LET tried == Append(attempts, [tier |-> tier, node |-> NoNode, matched |-> 0]) IN
       /\ attempts' = tried
       /\ IF tier < 4
          THEN /\ tier' = tier + 1
               /\ elapsed' = 0
               /\ UNCHANGED <<pc, personIdx, outcome>>
          ELSE /\ outcome' = Ended("noMatch", peopleCardData, tried, sawMatch')
               /\ personIdx' = personIdx + 1
               /\ pc' = "person"
               /\ UNCHANGED <<tier, elapsed>>
    /\ UNCHANGED <<query, providedNames, peopleCardData, returned, pathIdx, currentSearchRoot,
                   num_waits, userReady, present, arrowClicked, fnVars>>

\* no match yet: check runs again after the poll delay (line 229)
TierWait ==
    /\ pc = "tier"
    /\ findNodesByRegex(query.regex[tier], currentSearchRoot) = <<>>
    /\ elapsed <= TierTimeoutMs[tier]
    /\ sawMatch' = (sawMatch \/ SomePatternMatchesUnder(currentSearchRoot))
    /\ \E d \in PollDelays : elapsed' = elapsed + d
    /\ UNCHANGED <<query, providedNames, peopleCardData, returned, pc, personIdx, pathIdx,
                   currentSearchRoot, tier, num_waits, userReady, present, arrowClicked,
                   attempts, outcome, fnVars>>

\* lines 67-70: one more wait of countdown(0)
CountdownWait ==
    /\ pc = "countdown"
    /\ ~userReady /\ num_waits < MAX_NUM_WAITS
    /\ num_waits' = num_waits + 1
    /\ UNCHANGED <<query, providedNames, peopleCardData, returned, pc, personIdx, pathIdx,
                   currentSearchRoot, tier, elapsed, userReady, present, arrowClicked,
                   attempts, sawMatch, outcome, fnVars>>

\* countdown(0) returns (line 73) and clickFirstRegex returns true (line 244).
\* After the exact tier, lines 295-297: found is set, getHeadshotImageString
\* is called; when it throws, the catch of line 299 takes over and the
\* last+first-initial tier runs.  After a fallback tier, continue (lines 307,
\* 319, 328).
CountdownReturn ==
    /\ pc = "countdown"
    /\ userReady \/ num_waits >= MAX_NUM_WAITS
    /\ IF tier = 1
       THEN \E windowVal \in WindowVals :
            LET marked == [peopleCardData EXCEPT ![personIdx].found = TRUE]
                headshot == getHeadshotImageString(currentSearchRoot, windowVal)
            IN  IF DidThrow(headshot)
                THEN /\ peopleCardData' = marked
                     /\ tier' = 2
                     /\ elapsed' = 0
                     /\ pc' = "tier"
                     /\ UNCHANGED <<personIdx, outcome>>
                ELSE /\ peopleCardData' =
                            [marked EXCEPT ![personIdx].headshotImgString = headshot.value]
                     /\ outcome' = Ended("exact", peopleCardData', attempts, sawMatch)
                     /\ personIdx' = personIdx + 1
                     /\ pc' = "person"
                     /\ UNCHANGED <<tier, elapsed>>
       ELSE /\ outcome' = Ended("fallback", peopleCardData, attempts, sawMatch)
            /\ personIdx' = personIdx + 1
            /\ pc' = "person"
            /\ UNCHANGED <<peopleCardData, tier, elapsed>>
    /\ UNCHANGED <<query, providedNames, returned, pathIdx, currentSearchRoot, num_waits,
                   userReady, present, arrowClicked, attempts, sawMatch, fnVars>>

\* the user sets window.userReady = true in the console
UserSetsReady ==
    /\ pc = "countdown"
    /\ ~userReady
    /\ userReady' = TRUE
    /\ UNCHANGED <<query, providedNames, peopleCardData, returned, pc, personIdx, pathIdx,
                   currentSearchRoot, tier, elapsed, num_waits, present, arrowClicked,
                   attempts, sawMatch, outcome, fnVars>>

\* the page renders a lazy node in its parent, which is in the document and
\* is expanded: it shows children already, or its arrow was clicked
Render ==
    /\ pc \notin {"idle", "done"}
    /\ \E n \in LazyNodes \ present :
          /\ InDocument(NodeParent[n])
          /\ HasChildInDocument(NodeParent[n]) \/ NodeParent[n] \in arrowClicked
          /\ present' = present \cup {n}
    /\ UNCHANGED <<query, providedNames, peopleCardData, returned, pc, personIdx, pathIdx,
                   currentSearchRoot, tier, elapsed, num_waits, userReady, arrowClicked,
                   attempts, sawMatch, outcome, fnVars>>

NameLists == UNION {[1..n -> NamePool] : n \in 0..MaxNames}

Init ==
    /\ providedNames \in NameLists
    /\ peopleCardData = <<>>
    /\ returned = NotReturned
    /\ pc = "start"
    /\ personIdx = 0
    /\ pathIdx = 0
    /\ currentSearchRoot = Document
    /\ query = NoQuery
    /\ tier = 0
    /\ elapsed = 0
    /\ num_waits = 0
    /\ userReady = FALSE
    /\ present \in {rendered \in SUBSET LazyNodes :
                       \A n \in rendered : NodeParent[n] \in LazyNodes
                                              => NodeParent[n] \in rendered}
    /\ arrowClicked = {}
    /\ attempts = <<>>
    /\ sawMatch = FALSE
    /\ outcome = <<>>
    /\ fnIn = <<>>
    /\ fnOut = <<>>
    /\ fnStage = "unused"

ScriptStep ==
    \/ Start
    \/ FinishBatch
    \/ RejectPerson
    \/ BeginPerson
    \/ ExpandFound
    \/ ExpandTimeout
    \/ ExpandWait
    \/ TierClick
    \/ TierTimeout
    \/ TierWait
    \/ CountdownWait
    \/ CountdownReturn

Next == ScriptStep \/ UserSetsReady \/ Render

Spec == Init /\ [][Next]_vars

\* the event loop runs every timer and every continuation that is due
SpecFair == Spec /\ WF_vars(ScriptStep)

-----------------------------------------------------------------------------
(* Claims about the pure helpers *)

LettersAtoI == {"a", "b", "c", "d", "e", "f", "g", "h", "i"}
LettersJtoR == {"j", "k", "l", "m", "n", "o", "p", "q", "r"}
LettersStoZ == {"s", "t", "u", "v", "w", "x", "y", "z"}

\* the sub-range the claim assigns to a second character; a digit, which the
\* claim leaves open, falls in s-z
SubRangeOf(second) ==
    IF second \in LettersAtoI THEN <<"a", "i">>
    ELSE IF second \in LettersJtoR THEN <<"j", "r">>
    ELSE <<"s", "z">>

\* C5: for every last name whose canonical form (canonicalKebab without its
\* hyphens) starts with a letter, computeLetterAndRange does not throw, the
\* range folder is Xa-Xi, Xj-Xr or Xs-Xz with X the upper-cased first letter,
\* and which of the three is fixed by the second character of the canonical
\* form alone: a..i gives a-i, j..r gives j-r, s..z gives s-z, a missing
\* second character counts as a (and a digit falls in s-z).
C5_RangeFolderBySecondLetter ==
    fnStage = "computeLetterAndRange" =>
        LET clean == RemoveChars(IsHyphen, canonicalKebab(fnIn)) IN
        (clean # <<>> /\ clean[1] \in LettersAtoI \cup LettersJtoR \cup LettersStoZ) =>
            /\ ~DidThrow(fnOut)
            /\ LET X == UpperAZ[IndexOf(clean[1], LowerAZ)]
                   sub == SubRangeOf(IF Len(clean) < 2 THEN "a" ELSE clean[2])
               IN  /\ fnOut.letterFolder = <<X>>
                   /\ fnOut.rangeFolder = <<X, sub[1], "-", X, sub[2]>>

\* C5 witness: "B-r" (canonical form "br") was given the range folder Bj-Br
C5_Witness ==
    /\ fnStage = "computeLetterAndRange"
    /\ fnIn = <<"B", "-", "r">>
    /\ fnOut = [letterFolder |-> <<"B">>, rangeFolder |-> <<"B", "j", "-", "B", "r">>]

\* the label is, ignoring letter case, canonicalKebab(last), a hyphen,
\* canonicalKebab(first), a hyphen and four decimal digits, and nothing else
IsExactLabel(label, last, first) ==
    LET want == canonicalKebab(last) \o <<"-">> \o canonicalKebab(first) \o <<"-">>
    IN  /\ Len(label) = Len(want) + 4
        /\ \A n \in 1..Len(want) : ToLowerChar(label[n]) = want[n]
        /\ \A n \in (Len(want) + 1)..Len(label) : label[n] \in DigitSet

\* C6: for every parsed first and last name and every label, the exact-tier
\* pattern matches the label if and only if the label is, ignoring letter
\* case, canonicalKebab(last) - canonicalKebab(first) - four decimal digits,
\* with nothing before or after.
C6_ExactMatchesIffExactLabel ==
    fnStage = "tested" =>
        \A l \in Labels :
            fnOut.matches[l][1] <=> IsExactLabel(l, fnOut.last, fnOut.first)

\* C6 witness: for the name "a B" the label b-A-1234 matched the exact pattern
\* and the labels b-b-1234 (another first name), b-a--1234 and b-aa-1234
\* (something more after the first name) and b-a-123 (three digits) did not
C6_Witness ==
    /\ fnStage = "tested"
    /\ fnIn = <<"a", " ", "B">>
    /\ fnOut.matches[<<"b", "-", "A", "-", "1", "2", "3", "4">>][1]
    /\ ~fnOut.matches[<<"b", "-", "b", "-", "1", "2", "3", "4">>][1]
    /\ ~fnOut.matches[<<"b", "-", "a", "-", "-", "1", "2", "3", "4">>][1]
    /\ ~fnOut.matches[<<"b", "-", "a", "a", "-", "1", "2", "3", "4">>][1]
    /\ ~fnOut.matches[<<"b", "-", "a", "-", "1", "2", "3">>][1]

\* C7: normalization is idempotent: sanitizeName(sanitizeName(s)) =
\* sanitizeName(s) and canonicalKebab(canonicalKebab(s)) = canonicalKebab(s)
\* for every string s, and parsePersonName applied to 'first last' rebuilt
\* from its own output returns the same first and last parts.
C7_NormalizationIdempotent ==
    (fnStage \in {"sanitizeName", "canonicalKebab", "parsePersonName"} /\ Len(fnOut) = 2)
        => fnOut[2] = fnOut[1]

\* C10: for every name accepted by parsePersonName and computeLetterAndRange
\* and every label, a label matched by the pattern of one tier is matched by
\* the pattern of the next tier (exact, last+first-initial, last-only,
\* first-letter).
C10_TiersNested ==
    (fnStage = "tested" /\ fnOut.accepted) =>
        \A l \in Labels : \A t \in 1..3 :
            fnOut.matches[l][t] => fnOut.matches[l][t + 1]

-----------------------------------------------------------------------------
(* Claims about the run of the script *)

InitialEntry(name) == [name |-> name, found |-> FALSE, headshotImgString |-> Null]

\* some attempt of the sequence clicked a node
Clicked(tried) == \E k \in DOMAIN tried : tried[k].node # NoNode

\* the query ended before its folder path was expanded
PathFailed(o) == o.kind \in {"threw", "pathTimeout"}

\* the list the script returned, if it returned one
ReturnedList == returned.state = "returned" /\ returned.value # Undefined

\* C1: for every query of the batch, if some tier found a matching node and
\* clicked it, then when the batch finishes the entry of the query has
\* found = true and headshotImgString equal to the value of the Headshot
\* Image field of the page.
C1_ClickedQueryIsFoundWithHeadshot ==
    ReturnedList =>
        \A i \in DOMAIN outcome :
            Clicked(outcome[i].attempts) =>
                /\ returned.value.list[i].found = TRUE
                /\ returned.value.list[i].headshotImgString = [string |-> HeadshotFieldValue]

\* the attempts of one query are those of the tiers 1, 2, ... in order, and
\* only the last of them may have clicked a node
OrderedUntilFirstClick(tried) ==
    /\ \A k \in DOMAIN tried : tried[k].tier = k
    /\ \A k \in DOMAIN tried : k < Len(tried) => tried[k].node = NoNode

\* C2: within one query the tiers are attempted in the order exact,
\* last+first-initial, last-only, first-letter; a tier is attempted only if
\* every tier before it found no node within its wait; once a tier has clicked
\* a match no later tier is attempted: at most one card click per query.
C2_TiersInOrderAtMostOneClick ==
    /\ OrderedUntilFirstClick(attempts)
    /\ pc = "tier" => (tier = Len(attempts) + 1 /\ ~Clicked(attempts))
    /\ \A i \in DOMAIN outcome : OrderedUntilFirstClick(outcome[i].attempts)

\* C3 as stated, for any input list: the script returns a list that has one
\* entry per input name, in input order.
C3_AnyListReturnsOneEntryPerName ==
    pc = "done" =>
        /\ ReturnedList
        /\ Len(returned.value.list) = Len(providedNames)
        /\ \A i \in DOMAIN providedNames : returned.value.list[i].name = providedNames[i]

\* C3, for a list that is not empty: the returned list has exactly one entry
\* per input name, in input order; a query that fails (a name of fewer than
\* two parts, a last name that does not start with A-Z, a path folder that
\* does not appear in time) leaves its own entry at found = false and
\* headshotImgString = null; the entry of a query that ended is never changed
\* afterwards and the entry of a query that has not started is the initial
\* one; and when the script returns, every query of the list has been
\* processed.
C3_OneEntryPerNameFailuresIsolated ==
    providedNames # <<>> =>
        /\ pc # "start" =>
              /\ Len(peopleCardData) = Len(providedNames)
              /\ \A i \in DOMAIN providedNames : peopleCardData[i].name = providedNames[i]
              /\ \A i \in DOMAIN outcome :
                    /\ peopleCardData[i] = outcome[i].entry
                    /\ PathFailed(outcome[i]) =>
                          peopleCardData[i] = InitialEntry(providedNames[i])
              /\ \A i \in DOMAIN providedNames :
                    i > personIdx => peopleCardData[i] = InitialEntry(providedNames[i])
              /\ Len(outcome) = personIdx - 1
        /\ pc = "done" =>
              /\ ReturnedList
              /\ returned.value.list = peopleCardData
              /\ Len(outcome) = Len(providedNames)

\* C3 witness: the script returned the list of two names whose first query
\* failed on its path and whose second query was processed to a click
C3_Witness ==
    /\ pc = "done"
    /\ Len(providedNames) = 2
    /\ Len(outcome) = 2
    /\ outcome[1].kind = "pathTimeout"
    /\ Clicked(outcome[2].attempts)

\* C4: for a query whose folder path was expanded, if at no poll of the
\* tiers' waits a node under the range folder matched one of the four
\* patterns, then no card was clicked for the query and its entry stays at
\* found = false and headshotImgString = null, to the end.
C4_NoMatchMeansNotFoundNoClick ==
    /\ (pc \in {"tier", "countdown"} /\ ~sawMatch) =>
          /\ ~Clicked(attempts)
          /\ peopleCardData[personIdx] = InitialEntry(providedNames[personIdx])
    /\ \A i \in DOMAIN outcome :
          (~PathFailed(outcome[i]) /\ ~outcome[i].sawMatch) =>
              /\ ~Clicked(outcome[i].attempts)
              /\ outcome[i].entry = InitialEntry(providedNames[i])
              /\ peopleCardData[i] = InitialEntry(providedNames[i])

\* C4 witness: the script returned after a query whose path was expanded and
\* whose four tiers all timed out without a poll that saw a match
C4_Witness ==
    /\ pc = "done"
    /\ \E i \in DOMAIN outcome :
          /\ outcome[i].kind = "noMatch"
          /\ Len(outcome[i].attempts) = 4
          /\ ~outcome[i].sawMatch

\* the longest a poll can be late
MaxPollDelay == 2 * POLL_MS

\* a step in which a tier before the last times out
TierTimesOut ==
    /\ pc = "tier" /\ tier < 4
    /\ Len(attempts') = Len(attempts) + 1
    /\ attempts'[Len(attempts')].node = NoNode

\* C8 as stated, for any finite input list: the script eventually reaches the
\* final return of the result list.
C8_AnyListReachesFinalReturn == <>ReturnedList

\* C8: every wait is bounded and the batch always finishes, whatever the tree
\* and the user do: the poll loops of waitForMatchExact and waitForRegex do
\* not poll past their timeout, countdown(0) waits at most 12 times, a tier
\* that times out is followed by the attempt of the next tier, and the script
\* eventually returns: the result list when the input list is not empty,
\* nothing when it is empty.
C8_WaitsBoundedBatchFinishes ==
    /\ [](/\ num_waits <= MAX_NUM_WAITS
          /\ pc = "expand" => elapsed <= MATCH_TIMEOUT_MS + MaxPollDelay
          /\ pc = "tier" => elapsed <= TierTimeoutMs[tier] + MaxPollDelay)
    /\ [][TierTimesOut => (pc' = "tier" /\ tier' = tier + 1 /\ elapsed' = 0)]_vars
    /\ <>(pc = "done" /\ returned.state = "returned")
    /\ (providedNames # <<>>) => <>ReturnedList

\* C8 witness: the script returned the list after a countdown that the user
\* never answered ran its 12 waits and after tiers that timed out
C8_Witness ==
    /\ ReturnedList
    /\ num_waits = MAX_NUM_WAITS
    /\ ~userReady
    /\ \E i \in DOMAIN outcome : \E k \in DOMAIN outcome[i].attempts :
          outcome[i].attempts[k].node = NoNode

\* the nodes clickFirstRegex may take at a poll: those in the document, under
\* the search root, with a span whose trimmed text the pattern of the tier
\* matches
Candidates ==
    {n \in Nodes : /\ InDocument(n)
                   /\ IsDescendant(n, currentSearchRoot)
                   /\ n \notin NodesWithoutSpan
                   /\ RegexTest(query.regex[tier], Trim(NodeLabel[n]))}

\* C9: at the poll that succeeds the search root is the expanded range folder,
\* one node is clicked, and it is the first in document order of the nodes
\* under the search root whose label matches the pattern of the tier; a node
\* that does not match, or that is outside the subtree of the range folder,
\* is not clicked.
C9_ClicksFirstMatchUnderRangeFolder ==
    [][(attempts' # attempts /\ attempts' # <<>> /\ attempts'[Len(attempts')].node # NoNode) =>
          LET clicked == attempts'[Len(attempts')].node IN
          /\ Len(attempts') = Len(attempts) + 1
          /\ sanitizeName(NodeLabel[currentSearchRoot]) =
                sanitizeName(query.expandNames[Len(query.expandNames)])
          /\ clicked \in Candidates
          /\ \A n \in Candidates : clicked <= n]_vars

\* C9 witness: two nodes matched at the poll and node 8, the first of them,
\* was clicked
C9_Witness ==
    /\ pc = "countdown"
    /\ attempts[Len(attempts)].matched >= 2
    /\ attempts[Len(attempts)].node = 8

=============================================================================
